---- MODULE Spec2Model ----
(***************************************************************************)
(* pmdock: an X11 panel hosting dockapps and launchers (src/pmdock.c).     *)
(*                                                                         *)
(* The model follows main() of the panel process from the end of option    *)
(* parsing: daemonize, setup_display, create_dock_window,                  *)
(* create_launchers, start_dockapps and the event loop.  The X server is   *)
(* the environment: it queues CreateNotify events while the root window's  *)
(* event mask is selected and answers the property queries the handlers    *)
(* make (class hints, WM hints, geometry, _NET_SUPPORTING_WM_CHECK).  The  *)
(* original invoking process of daemon mode is a second process.           *)
(***************************************************************************)
EXTENDS Integers, Sequences, FiniteSets, TLC

\* ------------------------------------------------------------------ bounds
MaxTiles == 2        \* tiles in a configuration: 1..MaxTiles
MaxWindows == 2      \* top-level windows clients create during a run
MaxQueue == 2        \* events waiting in the Xlib queue

\* --------------------------------------------------------------- constants
None == 0                    \* X11 None
TILE_TYPE_APP == 0
TILE_TYPE_LAUNCHER == 1
SubstructureNotifyMask == 524288
IconPolls == 2               \* get_icon_window_waiting: for (i = 0; i < 2; ++i)

INT_MAX == 2147483647         \* 2^31 - 1: int and unsigned are 32 bits wide

\* Window ids the X server hands out.
RootWindowId == 1
DockWindowId == 2
LauncherWindowId(i) == 3 + i          \* tile index i (0-based) -> 3..
MainWindowId(k) == 10 + k             \* k-th client window
IconWindowOf(w) == w + 10             \* the icon window a dockapp names

\* Strings are 0-terminated character sequences; NULL is no string at all.
NULL == <<0>>
TileNames == {<<1>>, <<1, 2>>}
HintNames == TileNames \cup {<<2>>}

VARIABLES
    tiles,          \* app.tiles[]: sequence of struct tile (index i is tiles[i+1])
    horizontal,     \* app.horizontal
    tile_size,      \* app.tile_size
    daemon_mode,    \* app.daemon_mode
    dock_window,    \* app.dock_window
    pc,             \* position of the panel process in main()
    rootMask,       \* event mask the panel has selected on the root window
    queue,          \* events delivered to the panel, not yet read by XNextEvent
    created,        \* number of client windows created so far
    xwin,           \* X server: state of the windows the panel made requests on
    reqs,           \* X requests issued by the handler that ran last
    last,           \* inputs and outcome of the handler that ran last
    attempts,       \* per tile: number of swallow_dockapp calls made for it
    parent,         \* daemon mode: position of the original invoking process
    sigusr1,        \* SIGUSR1 sent to the parent and not yet delivered
    sigCount,       \* number of kill(getppid(), SIGUSR1) calls made
    argv,           \* the options getopt has not yet handed to parse_opts
    starting,       \* start_dockapps: loop index i and the fork() result in hand
    procs,          \* the fork() calls of start_dockapps: which tile, what result
    kills           \* pids kill(pid, SIGTERM) has been called with, in order

\* What only option parsing, process starting and termination touch.
childVars == <<argv, starting, procs, kills>>

vars == <<tiles, horizontal, tile_size, daemon_mode, dock_window, pc, rootMask,
          queue, created, xwin, reqs, last, attempts, parent, sigusr1, sigCount,
          childVars>>

\* ------------------------------------------------------------ arithmetic
\* 32-bit machine arithmetic on operands in 0..INT_MAX, written so that no
\* intermediate value leaves the range of a 32-bit signed integer.

\* (a - b) / 2 in unsigned arithmetic: a - b wraps to 2^32 - (b - a) when
\* b > a, and half of that is 2^31 - ceil((b - a) / 2).
USubHalf(a, b) ==
    IF a >= b THEN (a - b) \div 2
    ELSE (INT_MAX - ((b - a + 1) \div 2)) + 1

\* (int)((unsigned)x + u) for an int x and u in 0..INT_MAX: the sum wraps
\* modulo 2^32 and values from 2^31 on convert to negative ints.  A negative
\* x converts to x + 2^32, which the sum of x and u equals modulo 2^32.
UAddToInt(x, u) ==
    IF x < 0 THEN x + u
    ELSE IF u <= INT_MAX - x THEN x + u
    ELSE (x - INT_MAX - 1) + (u - INT_MAX - 1)

\* An unsigned 32-bit value as its two 16-bit halves.
Half == 65536
Unsigned(hi, lo) == [hi |-> hi, lo |-> lo]

\* index * size in unsigned arithmetic (index below 2^15): the product modulo
\* 2^32, computed half by half.
UMul(index, size) ==
    LET low == index * (size % Half)
        high == index * (size \div Half) + (low \div Half)
    IN  Unsigned(high % Half, low % Half)

\* Conversion of an unsigned value to int: values from 2^31 on become
\* negative.
ToInt(u) ==
    IF u.hi < Half \div 2 THEN u.hi * Half + u.lo
    ELSE (u.hi - Half) * Half + u.lo

\* (int)(index * size) in unsigned arithmetic.
UMulToInt(index, size) == ToInt(UMul(index, size))

\* (int)size * 2 in int arithmetic.  The product overflows from 2^30 on; the
\* C standard leaves that undefined, and the value here is the one a
\* two's-complement machine computes when the build does not trap.
IntTwice(size) ==
    IF size <= INT_MAX \div 2 THEN size * 2
    ELSE (size - INT_MAX - 1) * 2

\* ---------------------------------------------------------------- tiles
AppTile(name) ==
    [type |-> TILE_TYPE_APP, res_name |-> name, window |-> 0, pid |-> 0]

LauncherTile ==
    [type |-> TILE_TYPE_LAUNCHER, res_name |-> NULL, window |-> 0, pid |-> 0]

TileChoices == {AppTile(n) : n \in TileNames} \cup {LauncherTile}

TileLists == UNION {[1..n -> TileChoices] : n \in 1..MaxTiles}

\* Mutant of strcmp: compares only as far as the first string reaches, as
\* strncmp(a, b, strlen(a)) would.
RECURSIVE strcmp_prefix(_, _)
strcmp_prefix(a, b) ==
    IF a = <<>> THEN 0
    ELSE IF b = <<>> THEN Head(a)
    ELSE IF Head(a) # Head(b) THEN Head(a) - Head(b)
    ELSE strcmp_prefix(Tail(a), Tail(b))

\* strcmp: 0 iff the two strings are equal character by character.
RECURSIVE strcmp(_, _)
strcmp(a, b) ==
    IF a = <<>> /\ b = <<>> THEN 0
    ELSE IF a = <<>> THEN 0 - Head(b)
    ELSE IF b = <<>> THEN Head(a)
    ELSE IF Head(a) # Head(b) THEN Head(a) - Head(b)
    ELSE strcmp(Tail(a), Tail(b))

get_tile_position(index) ==
    [x |-> IF horizontal THEN UMulToInt(index, tile_size) ELSE 0,
     y |-> IF horizontal THEN 0 ELSE UMulToInt(index, tile_size)]

RECURSIVE check_from(_, _)
check_from(ts, i) ==
    IF i < Len(ts)
    THEN IF ts[i + 1].type = TILE_TYPE_APP /\ ts[i + 1].window = 0
         THEN 0
         ELSE check_from(ts, i + 1)
    ELSE 1

\* Mutant of check_all_dockapps_swallowed: satisfied by one swallowed dockapp.
check_some_dockapp_swallowed(ts) ==
    IF \E i \in 1..Len(ts) : ts[i].type = TILE_TYPE_APP /\ ts[i].window # 0
    THEN 1 ELSE 0

check_all_dockapps_swallowed(ts) == check_from(ts, 0)

\* ------------------------------------------------------------ X requests
Req(op, win, x, y) == [op |-> op, win |-> win, x |-> x, y |-> y]

NewWindow == [parent |-> RootWindowId, x |-> 0, y |-> 0, mapped |-> FALSE,
              raised |-> FALSE, border |-> 1]

GetWin(xs, w) == IF w \in DOMAIN xs THEN xs[w] ELSE NewWindow

PutWin(xs, w, rec) ==
    [v \in DOMAIN xs \cup {w} |-> IF v = w THEN rec ELSE xs[v]]

\* What the X server does with one request of the panel.
ApplyReq(xs, r) ==
    IF r.op = "XSetWindowBorderWidth"
    THEN PutWin(xs, r.win, [GetWin(xs, r.win) EXCEPT !.border = r.x])
    ELSE IF r.op = "XUnmapWindow"
    THEN PutWin(xs, r.win, [GetWin(xs, r.win) EXCEPT !.mapped = FALSE])
    ELSE IF r.op = "XReparentWindow"
    THEN PutWin(xs, r.win, [GetWin(xs, r.win) EXCEPT
                               !.parent = dock_window, !.x = r.x, !.y = r.y,
                               !.raised = TRUE])
    ELSE IF r.op = "XMapRaised"
    THEN PutWin(xs, r.win, [GetWin(xs, r.win) EXCEPT
                               !.mapped = TRUE, !.raised = TRUE])
    ELSE xs

RECURSIVE ApplyReqs(_, _)
ApplyReqs(xs, rs) ==
    IF rs = <<>> THEN xs ELSE ApplyReqs(ApplyReq(xs, Head(rs)), Tail(rs))

\* ------------------------------------------------------- icon discovery
\* XGetWMHints answers: no hints at all, hints without IconWindowHint, hints
\* with IconWindowHint naming the icon window.
NoHints == [present |-> FALSE, icon_flag |-> FALSE, icon_window |-> 0]

WMHintAnswers(w) ==
    {NoHints,
     [present |-> TRUE, icon_flag |-> FALSE, icon_window |-> IconWindowOf(w)],
     [present |-> TRUE, icon_flag |-> TRUE, icon_window |-> IconWindowOf(w)]}

get_icon_window(h) ==
    IF ~h.present THEN None
    ELSE IF h.icon_flag THEN h.icon_window
    ELSE None

\* The loop of get_icon_window_waiting from iteration i on; hs[i + 1] is what
\* XGetWMHints answers at iteration i.  Returns the window and the number of
\* queries made.
RECURSIVE icon_wait_from(_, _)
icon_wait_from(hs, i) ==
    IF i < IconPolls
    THEN LET ret == get_icon_window(hs[i + 1])
         IN  IF ret # None
             THEN [ret |-> ret, polls |-> i + 1]
             ELSE icon_wait_from(hs, i + 1)
    ELSE [ret |-> None, polls |-> i]

\* Mutant of get_icon_window_waiting: a single query, no retry.
get_icon_window_once(hs) == [ret |-> get_icon_window(hs[1]), polls |-> 1]

get_icon_window_waiting(hs) == icon_wait_from(hs, 0)

\* XGetGeometry: fails (size stays {0, 0}) or answers the window's size.
IconSizes == {<<48, 48>>}
NoGeometry == [ok |-> FALSE, width |-> 0, height |-> 0]
GeometryAnswers == {NoGeometry} \cup
                   {[ok |-> TRUE, width |-> s[1], height |-> s[2]] : s \in IconSizes}

get_window_size(g) ==
    IF ~g.ok THEN [width |-> 0, height |-> 0]
    ELSE [width |-> g.width, height |-> g.height]

\* ------------------------------------------------------------- swallow
\* Mutant of WmBranchReqs: the windows reparented before they are unmapped.
WmBranchReparentFirst(main_window, icon_window, main_x, main_y, icon_x, icon_y) ==
    <<Req("XReparentWindow", main_window, main_x, main_y),
      Req("XReparentWindow", icon_window, icon_x, icon_y),
      Req("XFlush", 0, 0, 0),
      Req("XUnmapWindow", main_window, 0, 0),
      Req("XUnmapWindow", icon_window, 0, 0),
      Req("XFlush", 0, 0, 0)>>

\* The requests of the WM-present branch (pmdock.c 393-403).
WmBranchReqs(main_window, icon_window, main_x, main_y, icon_x, icon_y) ==
    <<Req("XUnmapWindow", main_window, 0, 0),
      Req("XUnmapWindow", icon_window, 0, 0),
      Req("XFlush", 0, 0, 0),
      Req("XReparentWindow", main_window, main_x, main_y),
      Req("XReparentWindow", icon_window, icon_x, icon_y),
      Req("XFlush", 0, 0, 0)>>

\* Mutant of FinalReqs: the main window is left unmapped.
FinalReqsIconOnly(main_window, icon_window, main_x, main_y, icon_x, icon_y) ==
    <<Req("XReparentWindow", main_window, main_x, main_y),
      Req("XReparentWindow", icon_window, icon_x, icon_y),
      Req("XMapRaised", icon_window, 0, 0),
      Req("XFlush", 0, 0, 0)>>

\* The unconditional requests (pmdock.c 405-409).
FinalReqs(main_window, icon_window, main_x, main_y, icon_x, icon_y) ==
    <<Req("XReparentWindow", main_window, main_x, main_y),
      Req("XReparentWindow", icon_window, icon_x, icon_y),
      Req("XMapRaised", main_window, 0, 0),
      Req("XMapRaised", icon_window, 0, 0),
      Req("XFlush", 0, 0, 0)>>

\* The completion check (pmdock.c 413-421) on the tiles after the swallow.
Completion(ts, mask) ==
    IF check_all_dockapps_swallowed(ts) = 1
    THEN [reqs |-> <<Req("XSelectInput", RootWindowId, 0, 0)>>,
          rootMask |-> 0,
          kill |-> daemon_mode]
    ELSE [reqs |-> <<>>, rootMask |-> mask, kill |-> FALSE]

\* Geometry-resolve (pmdock.c 386-391): where the icon and the main window go.
resolve_geometry(index, g) ==
    LET size == get_window_size(g)
        tile_pos == get_tile_position(index)
        icon_x == UAddToInt(tile_pos.x, USubHalf(tile_size, size.width))
        icon_y == UAddToInt(tile_pos.y, USubHalf(tile_size, size.height))
    IN  [icon_x |-> icon_x,
         icon_y |-> icon_y,
         main_x |-> IF horizontal THEN icon_x ELSE IntTwice(tile_size),
         main_y |-> IF horizontal THEN IntTwice(tile_size) ELSE icon_y]

\* swallow_dockapp from the point where an icon window is in hand
\* (pmdock.c 382-421): mark the tile, strip the border, resolve the geometry,
\* issue the reparent sequence, run the completion check.
swallow_found(ts, mask, main_window, index, wm, found, g) ==
    LET icon_window == found.ret
        ts2 == [ts EXCEPT ![index + 1].window = icon_window]
        at == resolve_geometry(index, g)
        done == Completion(ts2, mask)
    IN  [tiles |-> ts2,
         reqs |-> <<Req("XSetWindowBorderWidth", icon_window, 0, 0)>>
                  \o (IF wm
                      THEN WmBranchReqs(main_window, icon_window,
                                        at.main_x, at.main_y, at.icon_x, at.icon_y)
                      ELSE <<>>)
                  \o FinalReqs(main_window, icon_window,
                               at.main_x, at.main_y, at.icon_x, at.icon_y)
                  \o done.reqs,
         rootMask |-> done.rootMask,
         kill |-> done.kill,
         polls |-> found.polls,
         icon |-> icon_window]

\* Mutant of swallow_dockapp: the early return of pmdock.c 377-380 is missing.
swallow_dockapp_no_abort(ts, mask, main_window, index, wm, hs, g) ==
    swallow_found(ts, mask, main_window, index, wm, get_icon_window_waiting(hs), g)

\* swallow_dockapp(main_window, index): wm is check_window_manager()'s answer,
\* hs the XGetWMHints answers, g the XGetGeometry answer.
swallow_dockapp(ts, mask, main_window, index, wm, hs, g) ==
    LET found == get_icon_window_waiting(hs)
    IN  IF found.ret = None
        THEN [tiles |-> ts, reqs |-> <<>>, rootMask |-> mask, kill |-> FALSE,
              polls |-> found.polls, icon |-> None]
        ELSE swallow_found(ts, mask, main_window, index, wm, found, g)

\* ------------------------------------------------- handle_create_event
\* XGetClassHint answers: failure (no class hints) or a resource name.
NoClassHint == [ok |-> FALSE, res_name |-> NULL]
ClassHintAnswers == {NoClassHint} \cup
                    {[ok |-> TRUE, res_name |-> n] : n \in HintNames}

\* Mutant of TileMatches: the test without its "window == 0" conjunct.
TileMatchesFilledToo(t, res_name) ==
    t.res_name # NULL /\ strcmp(res_name, t.res_name) = 0

\* The tile test of the loop at pmdock.c 487.
TileMatches(t, res_name) ==
    t.window = 0 /\ t.res_name # NULL /\ strcmp(res_name, t.res_name) = 0

\* Mutant of match_from: the loop run from the last tile down.
RECURSIVE match_from_end(_, _, _)
match_from_end(ts, res_name, i) ==
    IF i < Len(ts)
    THEN IF TileMatches(ts[Len(ts) - i], res_name)
         THEN Len(ts) - i - 1
         ELSE match_from_end(ts, res_name, i + 1)
    ELSE -1

\* The loop at pmdock.c 486-491: the index the swallow is called with, or -1.
RECURSIVE match_from(_, _, _)
match_from(ts, res_name, i) ==
    IF i < Len(ts)
    THEN IF TileMatches(ts[i + 1], res_name)
         THEN i
         ELSE match_from(ts, res_name, i + 1)
    ELSE -1

\* Mutant of handle_create_event: the loop at 486-491 without its break; it
\* goes on to the next tile that matches.
handle_create_event_no_break(ts, mask, window, ch, wm, hs, g) ==
    LET quiet == [tiles |-> ts, reqs |-> <<>>, rootMask |-> mask, kill |-> FALSE,
                  polls |-> 0, icon |-> None, index |-> -1]
    IN  IF ~ch.ok THEN quiet
        ELSE LET i == match_from(ts, ch.res_name, 0)
             IN  IF i = -1 THEN quiet
                 ELSE LET r == swallow_dockapp(ts, mask, window, i, wm, hs, g)
                          j == match_from(r.tiles, ch.res_name, i + 1)
                      IN  IF j = -1 THEN [index |-> i] @@ r
                          ELSE LET r2 == swallow_dockapp(r.tiles, r.rootMask, window,
                                                         j, wm, hs, g)
                               IN  [index |-> i, tiles |-> r2.tiles,
                                    reqs |-> r.reqs \o r2.reqs,
                                    rootMask |-> r2.rootMask,
                                    kill |-> (r.kill \/ r2.kill),
                                    polls |-> r.polls, icon |-> r.icon]

\* handle_create_event, 474-495.
handle_create_event(ts, mask, window, ch, wm, hs, g) ==
    LET quiet == [tiles |-> ts, reqs |-> <<>>, rootMask |-> mask, kill |-> FALSE,
                  polls |-> 0, icon |-> None, index |-> -1]
    IN  IF ~ch.ok THEN quiet
        ELSE LET i == match_from(ts, ch.res_name, 0)
             IN  IF i = -1 THEN quiet
                 ELSE [index |-> i] @@
                      swallow_dockapp(ts, mask, window, i, wm, hs, g)

\* ----------------------------------------------------------------- state
TileSizes == {64}

Pid(i) == 100 + i                     \* the pid fork() returns for tile i

\* start_dockapps is not running: no loop index, no fork() result in hand.
NotStarting == [i |-> 0, ret |-> 0]

\* One fork() call: by whom, for which tile's command, and what it returned
\* (the child's pid, or -1).
Fork(by, index, pid) == [by |-> by, tile |-> index, pid |-> pid]

NoEvent == [kind |-> "none", window |-> 0, ch |-> NoClassHint, wm |-> FALSE,
            seen |-> [i \in 1..IconPolls |-> None], g |-> NoGeometry,
            index |-> -1, icon |-> None, polls |-> 0]

Init ==
    /\ tiles \in TileLists
    /\ horizontal \in BOOLEAN
    /\ tile_size \in TileSizes
    /\ daemon_mode \in BOOLEAN
    /\ dock_window = None
    /\ pc = "parsed"
    /\ rootMask = 0
    /\ queue = <<>>
    /\ created = 0
    /\ xwin = <<>>
    /\ reqs = <<>>
    /\ last = NoEvent
    /\ attempts = [i \in 1..Len(tiles) |-> 0]
    /\ parent = "none"
    /\ sigusr1 = FALSE
    /\ sigCount = 0
    /\ argv = <<>>
    /\ starting = NotStarting
    /\ procs = <<>>
    /\ kills = <<>>

\* ------------------------------------------------------------ main()
\* main, 823-826: in daemon mode daemonize() forks; the child goes on, the
\* original process becomes the waiting parent.  fork may fail (pm_assert).
MainDaemonize ==
    /\ pc = "parsed"
    /\ IF daemon_mode
       THEN \E forked \in BOOLEAN :
                IF forked
                THEN pc' = "daemonized" /\ parent' = "forked"
                ELSE pc' = "exit1" /\ parent' = parent
       ELSE pc' = "daemonized" /\ parent' = parent
    /\ UNCHANGED <<tiles, horizontal, tile_size, daemon_mode, dock_window, rootMask,
                   queue, created, xwin, reqs, last, attempts, sigusr1, sigCount,
                   childVars>>

\* main, 828: signal(SIGTERM, handle_sigterm)
MainInstallSigterm ==
    /\ pc = "daemonized"
    /\ pc' = "handlers"
    /\ UNCHANGED <<tiles, horizontal, tile_size, daemon_mode, dock_window, rootMask,
                   queue, created, xwin, reqs, last, attempts, parent, sigusr1, sigCount,
                   childVars>>

\* setup_display: XOpenDisplay (may fail), XSelectInput on the root window.
SetupDisplay ==
    /\ pc = "handlers"
    /\ \E opened \in BOOLEAN :
           IF opened
           THEN pc' = "display" /\ rootMask' = SubstructureNotifyMask
           ELSE pc' = "exit1" /\ rootMask' = rootMask
    /\ UNCHANGED <<tiles, horizontal, tile_size, daemon_mode, dock_window,
                   queue, created, xwin, reqs, last, attempts, parent, sigusr1, sigCount,
                   childVars>>

\* create_dock_window, 730-731: the panel's width and height, unsigned.
dock_window_size(tile_count) ==
    [width |-> IF horizontal THEN UMul(tile_count, tile_size) ELSE UMul(1, tile_size),
     height |-> IF horizontal THEN UMul(1, tile_size) ELSE UMul(tile_count, tile_size)]

\* A window the panel creates itself, mapped at (x, y) in its parent.
OwnWindow(parent_window, x, y, width, height) ==
    [parent |-> parent_window, x |-> x, y |-> y, mapped |-> TRUE, raised |-> FALSE,
     border |-> 0, width |-> width, height |-> height]

CreateDockWindow ==
    /\ pc = "display"
    /\ dock_window' = DockWindowId
    /\ LET size == dock_window_size(Len(tiles))
       IN  xwin' = PutWin(xwin, DockWindowId,
                          OwnWindow(RootWindowId, 0, 0, size.width, size.height))
    /\ pc' = "dock"
    /\ UNCHANGED <<tiles, horizontal, tile_size, daemon_mode, rootMask,
                   queue, created, reqs, last, attempts, parent, sigusr1, sigCount,
                   childVars>>

\* Mutant of create_launchers: the window is created and not stored in the
\* tile.
create_launchers_unstored(ts) == ts

\* create_launchers, 763-775: the tiles with the launcher windows stored.
create_launchers(ts) ==
    [i \in 1..Len(ts) |->
        IF ts[i].type # TILE_TYPE_LAUNCHER THEN ts[i]
        ELSE [ts[i] EXCEPT !.window = LauncherWindowId(i - 1)]]

\* The windows create_launchers has the X server create, tile by tile.
RECURSIVE launcher_windows(_, _, _)
launcher_windows(xs, ts, i) ==
    IF i >= Len(ts) THEN xs
    ELSE IF ts[i + 1].type # TILE_TYPE_LAUNCHER THEN launcher_windows(xs, ts, i + 1)
    ELSE LET pos == get_tile_position(i)
         IN  launcher_windows(
                 PutWin(xs, LauncherWindowId(i),
                        OwnWindow(dock_window, pos.x, pos.y,
                                  UMul(1, tile_size), UMul(1, tile_size))),
                 ts, i + 1)

\* main, 832-834: create_launchers, then XFlush.
CreateLaunchers ==
    /\ pc = "dock"
    /\ tiles' = create_launchers(tiles)
    /\ xwin' = launcher_windows(xwin, tiles, 0)
    /\ pc' = "launchers"
    /\ UNCHANGED <<horizontal, tile_size, daemon_mode, dock_window, rootMask,
                   queue, created, reqs, last, attempts, parent, sigusr1, sigCount,
                   childVars>>

\* start_dockapps: failAt is the index of the tile whose fork fails, -1 if
\* none does.  Tiles before it have their pid recorded; a failing fork
\* records -1 and pm_assert exits.
start_dockapps(ts, failAt) ==
    [i \in 1..Len(ts) |->
        IF ts[i].type # TILE_TYPE_APP THEN ts[i]
        ELSE IF failAt = -1 \/ i - 1 < failAt THEN [ts[i] EXCEPT !.pid = Pid(i - 1)]
        ELSE IF i - 1 = failAt THEN [ts[i] EXCEPT !.pid = -1]
        ELSE ts[i]]

\* The fork() calls of start_dockapps, in order.
RECURSIVE start_forks(_, _, _)
start_forks(ts, failAt, i) ==
    IF i >= Len(ts) \/ (failAt # -1 /\ i > failAt) THEN <<>>
    ELSE IF ts[i + 1].type # TILE_TYPE_APP THEN start_forks(ts, failAt, i + 1)
    ELSE <<Fork("start", i, IF i = failAt THEN -1 ELSE Pid(i))>>
         \o start_forks(ts, failAt, i + 1)

StartDockapps ==
    /\ pc = "launchers"
    /\ \E failAt \in {-1} \cup {i \in 0..(Len(tiles) - 1) : tiles[i + 1].type = TILE_TYPE_APP} :
           /\ tiles' = start_dockapps(tiles, failAt)
           /\ procs' = procs \o start_forks(tiles, failAt, 0)
           /\ pc' = IF failAt = -1 THEN "loop" ELSE "exit1"
    /\ UNCHANGED <<horizontal, tile_size, daemon_mode, dock_window, rootMask,
                   queue, created, xwin, reqs, last, attempts, parent, sigusr1, sigCount,
                   argv, starting, kills>>

\* -------------------------------------------------------- the X server
Running == pc \notin {"exit0", "exit1", "killed"}

\* Some client creates a top-level window; the panel is sent a CreateNotify
\* when it has selected SubstructureNotifyMask on the root window.
ClientCreateWindow ==
    /\ created < MaxWindows
    /\ Len(queue) < MaxQueue
    /\ created' = created + 1
    /\ queue' = IF rootMask # 0 /\ Running
                THEN Append(queue, [type |-> "CreateNotify",
                                    window |-> MainWindowId(created + 1)])
                ELSE queue
    /\ UNCHANGED <<tiles, horizontal, tile_size, daemon_mode, dock_window, pc, rootMask,
                   xwin, reqs, last, attempts, parent, sigusr1, sigCount,
                   childVars>>

\* ------------------------------------------------------ the event loop
\* The answers the X server gives to the queries handle_create_event makes;
\* a query the handler does not make has no answer (it is left at its blank).
\* XGetClassHint is always made; check_window_manager and the first
\* XGetWMHints only for a matched tile; the second XGetWMHints only when the
\* first names no icon window; XGetGeometry only when an icon window is found.
Ans(ch, wm, h1, h2, g) == [ch |-> ch, wm |-> wm, hs |-> <<h1, h2>>, g |-> g]

Answers(ts, window) ==
    LET matching == {ch \in ClassHintAnswers :
                        ch.ok /\ match_from(ts, ch.res_name, 0) # -1}
        iconic == {h \in WMHintAnswers(window) : get_icon_window(h) # None}
        blank == WMHintAnswers(window) \ iconic
    IN  {Ans(ch, FALSE, NoHints, NoHints, NoGeometry) :
            ch \in ClassHintAnswers \ matching}
        \cup {Ans(x[1], x[2], x[3], NoHints, x[4]) :
                x \in matching \X BOOLEAN \X iconic \X GeometryAnswers}
        \cup {Ans(x[1], x[2], x[3], x[4], x[5]) :
                x \in matching \X BOOLEAN \X blank \X iconic \X GeometryAnswers}
        \cup {Ans(x[1], x[2], x[3], x[4], NoGeometry) :
                x \in matching \X BOOLEAN \X blank \X blank}

\* main, 838-844: XNextEvent takes a CreateNotify, handle_create_event runs.
HandleCreateEvent ==
    /\ pc = "loop"
    /\ queue # <<>>
    /\ Head(queue).type = "CreateNotify"
    /\ LET window == Head(queue).window IN
       \E a \in Answers(tiles, window) :
           LET r == handle_create_event(tiles, rootMask, window, a.ch, a.wm, a.hs, a.g) IN
           /\ tiles' = r.tiles
           /\ reqs' = r.reqs
           /\ xwin' = ApplyReqs(xwin, r.reqs)
           /\ rootMask' = r.rootMask
           /\ sigusr1' = (sigusr1 \/ r.kill)
           /\ sigCount' = sigCount + (IF r.kill THEN 1 ELSE 0)
           /\ last' = [kind |-> "create", window |-> window, ch |-> a.ch, wm |-> a.wm,
                       seen |-> [i \in 1..IconPolls |-> get_icon_window(a.hs[i])],
                       g |-> a.g, index |-> r.index, icon |-> r.icon,
                       polls |-> r.polls]
           /\ attempts' = IF r.index = -1 THEN attempts
                          ELSE [attempts EXCEPT ![r.index + 1] = @ + 1]
    /\ queue' = Tail(queue)
    /\ UNCHANGED <<horizontal, tile_size, daemon_mode, dock_window, pc, created, parent,
                   childVars>>

\* ------------------------------------------------ the invoking process
\* daemonize, 684: signal(SIGUSR1, handle_sigusr1)
ParentInstallHandler ==
    /\ parent = "forked"
    /\ parent' = "handler"
    /\ UNCHANGED <<tiles, horizontal, tile_size, daemon_mode, dock_window, pc, rootMask,
                   queue, created, xwin, reqs, last, attempts, sigusr1, sigCount,
                   childVars>>

\* daemonize, 685: pause()
ParentPause ==
    /\ parent = "handler"
    /\ parent' = "paused"
    /\ UNCHANGED <<tiles, horizontal, tile_size, daemon_mode, dock_window, pc, rootMask,
                   queue, created, xwin, reqs, last, attempts, sigusr1, sigCount,
                   childVars>>

\* SIGUSR1 reaches the parent: handle_sigusr1 exits 0 when it is installed;
\* before signal() has run the default action terminates the process.
ParentSignal ==
    /\ sigusr1
    /\ parent \in {"forked", "handler", "paused"}
    /\ parent' = IF parent = "forked" THEN "killed" ELSE "exit0"
    /\ sigusr1' = FALSE
    /\ UNCHANGED <<tiles, horizontal, tile_size, daemon_mode, dock_window, pc, rootMask,
                   queue, created, xwin, reqs, last, attempts, sigCount,
                   childVars>>

Next ==
    \/ MainDaemonize
    \/ MainInstallSigterm
    \/ SetupDisplay
    \/ CreateDockWindow
    \/ CreateLaunchers
    \/ StartDockapps
    \/ ClientCreateWindow
    \/ HandleCreateEvent
    \/ ParentInstallHandler
    \/ ParentPause
    \/ ParentSignal

Spec == Init /\ [][Next]_vars

FairSpec ==
    /\ Spec
    /\ WF_vars(MainDaemonize)
    /\ WF_vars(MainInstallSigterm)
    /\ WF_vars(SetupDisplay)
    /\ WF_vars(CreateDockWindow)
    /\ WF_vars(CreateLaunchers)
    /\ WF_vars(StartDockapps)
    /\ WF_vars(HandleCreateEvent)
    /\ WF_vars(ParentInstallHandler)
    /\ WF_vars(ParentPause)
    /\ WF_vars(ParentSignal)

\* ------------------------------------------------- handle_expose_event
\* imlib_render_image_on_drawable(x, y) with the context's image and drawable.
Render(image, drawable, x, y) ==
    [op |-> "imlib_render_image_on_drawable", win |-> drawable, x |-> x, y |-> y,
     image |-> image]

\* Mutant of icon_offset: the subtraction without the comparison that guards
\* it, as in swallow_dockapp.
icon_offset_unguarded(extent) == USubHalf(tile_size, extent)

\* pmdock.c 536-537: where the icon goes on one axis of the launcher's window.
icon_offset(extent) ==
    IF extent < tile_size THEN (tile_size - extent) \div 2 ELSE 0

\* The loop of handle_expose_event from tile i on: the images rendered, in
\* order.  width and height are what imlib reports for the tile's icon.
RECURSIVE expose_from(_, _, _, _, _)
expose_from(ts, window, width, height, i) ==
    IF i >= Len(ts) THEN <<>>
    ELSE LET pos == get_tile_position(i)
             t == ts[i + 1]
         IN  (IF window = dock_window /\ t.type # TILE_TYPE_LAUNCHER
              THEN <<Render("bg_image", dock_window, pos.x, pos.y)>>
              ELSE IF window = t.window /\ t.type = TILE_TYPE_LAUNCHER
              THEN <<Render("bg_image", t.window, 0, 0),
                     Render("icon", t.window, icon_offset(width), icon_offset(height))>>
              ELSE <<>>)
             \o expose_from(ts, window, width, height, i + 1)

handle_expose_event(ts, window, width, height) ==
    expose_from(ts, window, width, height, 0)

\* The sizes launcher icons come in.
ImageSizes == {<<48, 48>>, <<64, 64>>, <<80, 48>>, <<48, 81>>}

\* The windows the panel has selected ExposureMask on.
ExposedWindows(ts) ==
    {dock_window} \cup {ts[i].window : i \in {j \in 1..Len(ts) :
                                                ts[j].type = TILE_TYPE_LAUNCHER}}

\* main, 845-847: XNextEvent takes an Expose, handle_expose_event runs.
HandleExposeEvent ==
    /\ pc = "loop"
    /\ \E window \in ExposedWindows(tiles) :
       \E size \in (IF window = dock_window THEN {<<0, 0>>} ELSE ImageSizes) :
           /\ reqs' = handle_expose_event(tiles, window, size[1], size[2])
           /\ last' = [width |-> size[1], height |-> size[2]] @@
                       [NoEvent EXCEPT !.kind = "expose", !.window = window]
    /\ UNCHANGED <<tiles, horizontal, tile_size, daemon_mode, dock_window, pc, rootMask,
                   queue, created, xwin, attempts, parent, sigusr1, sigCount,
                   childVars>>

\* ------------------------------------------------------------- geometry
\* The geometry of the panel over the range of its inputs: tile sizes up to
\* INT_MAX (parse_opts takes every size above 0), icon windows and launcher
\* icons smaller than, equal to and larger than the tile.
MaxGeomTiles == 3

GeomTileSizes == {1, 64, 1073741824, 2147483647}

GeomTileLists ==
    UNION {[1..n -> {AppTile(<<1>>), LauncherTile}] : n \in 1..MaxGeomTiles}

GeomGeometryAnswers ==
    {NoGeometry} \cup {[ok |-> TRUE, width |-> s[1], height |-> s[2]] : s \in ImageSizes}

GeomInit ==
    /\ tiles \in GeomTileLists
    /\ horizontal \in BOOLEAN
    /\ tile_size \in GeomTileSizes
    /\ daemon_mode = FALSE
    /\ dock_window = None
    /\ pc = "parsed"
    /\ rootMask = 0
    /\ queue = <<>>
    /\ created = 0
    /\ xwin = <<>>
    /\ reqs = <<>>
    /\ last = NoEvent
    /\ attempts = [i \in 1..Len(tiles) |-> 0]
    /\ parent = "none"
    /\ sigusr1 = FALSE
    /\ sigCount = 0
    /\ argv = <<>>
    /\ starting = NotStarting
    /\ procs = <<>>
    /\ kills = <<>>

\* swallow_dockapp, 386-391, on its own: the geometry it resolves for the
\* icon window of an unfilled Dockapp tile, whatever XGetGeometry answers.
\* Where (int)app.tile_size * 2 overflows the behaviour is undefined: the
\* build either wraps the product or traps and the process is killed.
ResolveGeometry ==
    /\ pc = "loop"
    /\ \E index \in {i \in 0..(Len(tiles) - 1) :
                        tiles[i + 1].type = TILE_TYPE_APP /\ tiles[i + 1].window = 0} :
       \E g \in GeomGeometryAnswers :
       \E trapped \in (IF tile_size > INT_MAX \div 2 THEN BOOLEAN ELSE {FALSE}) :
           IF trapped
           THEN /\ last' = [NoEvent EXCEPT !.kind = "overflow", !.index = index, !.g = g]
                /\ pc' = "killed"
           ELSE /\ last' = [at |-> resolve_geometry(index, g)] @@
                           [NoEvent EXCEPT !.kind = "resolve", !.index = index, !.g = g]
                /\ pc' = pc
    /\ UNCHANGED <<tiles, horizontal, tile_size, daemon_mode, dock_window, rootMask,
                   queue, created, xwin, reqs, attempts, parent, sigusr1, sigCount,
                   childVars>>

GeomNext ==
    \/ MainDaemonize
    \/ MainInstallSigterm
    \/ SetupDisplay
    \/ CreateDockWindow
    \/ CreateLaunchers
    \/ StartDockapps
    \/ HandleExposeEvent
    \/ ResolveGeometry

GeomSpec == GeomInit /\ [][GeomNext]_vars

\* --------------------------------------------------- terminate_dockapps
\* Mutant of terminate_dockapps: the test written "pid >= 0".
RECURSIVE terminate_from_zero(_, _)
terminate_from_zero(ts, i) ==
    IF i >= Len(ts) THEN <<>>
    ELSE (IF ts[i + 1].pid >= 0 THEN <<ts[i + 1].pid>> ELSE <<>>)
         \o terminate_from_zero(ts, i + 1)

terminate_dockapps_from_zero(ts) == terminate_from_zero(ts, 0)

\* The loop of terminate_dockapps from tile i on: the pids kill(pid, SIGTERM)
\* is called with, in order.
RECURSIVE terminate_from(_, _)
terminate_from(ts, i) ==
    IF i >= Len(ts) THEN <<>>
    ELSE (IF ts[i + 1].pid > 0 THEN <<ts[i + 1].pid>> ELSE <<>>)
         \o terminate_from(ts, i + 1)

terminate_dockapps(ts) == terminate_from(ts, 0)

\* ------------------------------------------------------ start_dockapps
\* The next Dockapp tile of the loop at or after index i, or -1.
RECURSIVE next_app(_, _)
next_app(ts, i) ==
    IF i >= Len(ts) THEN -1
    ELSE IF ts[i + 1].type = TILE_TYPE_APP THEN i
    ELSE next_app(ts, i + 1)

\* start_dockapps, 792, right-hand side: fork() is called for the next
\* Dockapp tile and has returned in the panel; its result is not yet stored.
StartDockappsFork ==
    /\ pc = "launchers"
    /\ next_app(tiles, starting.i) # -1
    /\ LET i == next_app(tiles, starting.i) IN
       \E forked \in BOOLEAN :
           LET ret == IF forked THEN Pid(i) ELSE -1 IN
           /\ procs' = Append(procs, Fork("start", i, ret))
           /\ starting' = [i |-> i, ret |-> ret]
    /\ pc' = "starting"
    /\ UNCHANGED <<tiles, horizontal, tile_size, daemon_mode, dock_window, rootMask,
                   queue, created, xwin, reqs, last, attempts, parent, sigusr1, sigCount,
                   argv, kills>>

\* start_dockapps, 792-793: the result is stored in the tile's pid; pm_assert
\* exits with status 1 when it is negative.
StartDockappsStore ==
    /\ pc = "starting"
    /\ tiles' = [tiles EXCEPT ![starting.i + 1].pid = starting.ret]
    /\ IF starting.ret >= 0
       THEN pc' = "launchers" /\ starting' = [i |-> starting.i + 1, ret |-> 0]
       ELSE pc' = "exit1" /\ starting' = NotStarting
    /\ UNCHANGED <<horizontal, tile_size, daemon_mode, dock_window, rootMask,
                   queue, created, xwin, reqs, last, attempts, parent, sigusr1, sigCount,
                   argv, procs, kills>>

\* start_dockapps returns: no Dockapp tile is left; main enters its loop.
StartDockappsDone ==
    /\ pc = "launchers"
    /\ next_app(tiles, starting.i) = -1
    /\ pc' = "loop"
    /\ starting' = NotStarting
    /\ UNCHANGED <<tiles, horizontal, tile_size, daemon_mode, dock_window, rootMask,
                   queue, created, xwin, reqs, last, attempts, parent, sigusr1, sigCount,
                   argv, procs, kills>>

\* ------------------------------------------------------------- signals
\* Where the panel is once main has run signal(SIGTERM, handle_sigterm).
SigtermHandled == {"handlers", "display", "dock", "launchers", "starting", "loop"}

\* SIGTERM is delivered to the panel process.  With the handler installed
\* handle_sigterm runs: terminate_dockapps, exit(0).  Before that the default
\* action ends the process.
Sigterm ==
    /\ Running
    /\ IF pc \in SigtermHandled
       THEN /\ kills' = kills \o terminate_dockapps(tiles)
            /\ pc' = "exit0"
       ELSE /\ kills' = kills
            /\ pc' = "killed"
    /\ last' = [NoEvent EXCEPT !.kind = "sigterm"]
    /\ reqs' = <<>>
    /\ UNCHANGED <<tiles, horizontal, tile_size, daemon_mode, dock_window, rootMask,
                   queue, created, xwin, attempts, parent, sigusr1, sigCount,
                   argv, starting, procs>>

\* ------------------------------------------------------------ X errors
BadWindow == 3
X_GetProperty == 20
X_ReparentWindow == 7
X_GetGeometry == 14
BadMatch == 8
BadDrawable == 9

XError(request, code) == [request_code |-> request, error_code |-> code]

\* The errors the requests of handle_create_event can draw when the client's
\* window goes away under them: XGetClassHint is a GetProperty; a swallow
\* adds XGetGeometry and XReparentWindow.
XErrors(rs) ==
    {XError(X_GetProperty, BadWindow)} \cup
    (IF \E k \in 1..Len(rs) : rs[k].op = "XReparentWindow"
     THEN {XError(X_GetGeometry, BadDrawable),
           XError(X_ReparentWindow, BadWindow),
           XError(X_ReparentWindow, BadMatch)}
     ELSE {})

\* Where Xlib reads the connection with the panel's error handlers set: in
\* the calls of create_dock_window, create_launchers and XFlush, and in the
\* event loop.
InXlib == pc \in {"display", "dock", "loop"}

\* handle_error_event: what it returns and whether it reaches pm_debug.
handle_error_event(error) ==
    IF error.request_code = X_GetProperty
    THEN [ret |-> 0, logged |-> FALSE]
    ELSE [ret |-> 0, logged |-> TRUE]

\* Xlib reads an error for a request of the creation event handled last (its
\* window is gone, say) and calls the handler XSetErrorHandler has set.
HandleErrorEvent ==
    /\ pc = "loop"
    /\ last.kind = "create"
    /\ \E error \in XErrors(reqs) :
           last' = [error |-> error, logged |-> handle_error_event(error).logged] @@
                   [NoEvent EXCEPT !.kind = "error"]
    /\ reqs' = <<>>
    /\ UNCHANGED <<tiles, horizontal, tile_size, daemon_mode, dock_window, pc, rootMask,
                   queue, created, xwin, attempts, parent, sigusr1, sigCount,
                   childVars>>

\* The connection is lost: Xlib calls handle_io_error_event, which runs
\* terminate_dockapps and exit(1).
HandleIOErrorEvent ==
    /\ InXlib
    /\ kills' = kills \o terminate_dockapps(tiles)
    /\ pc' = "exit1"
    /\ last' = [NoEvent EXCEPT !.kind = "io_error"]
    /\ reqs' = <<>>
    /\ UNCHANGED <<tiles, horizontal, tile_size, daemon_mode, dock_window, rootMask,
                   queue, created, xwin, attempts, parent, sigusr1, sigCount,
                   argv, starting, procs>>

\* --------------------------------------------- handle_button_press_event
ClickPid == 200                       \* the pid fork() returns on a click

\* Mutant of press_from: the tile found by its window alone.
RECURSIVE press_from_any_type(_, _, _)
press_from_any_type(ts, window, i) ==
    IF i >= Len(ts) THEN -1
    ELSE IF window = ts[i + 1].window THEN i
    ELSE press_from_any_type(ts, window, i + 1)

\* The loop at pmdock.c 500-511: the index of the tile fork() is called for,
\* or -1.
RECURSIVE press_from(_, _, _)
press_from(ts, window, i) ==
    IF i >= Len(ts) THEN -1
    ELSE IF ts[i + 1].type = TILE_TYPE_LAUNCHER /\ window = ts[i + 1].window THEN i
    ELSE press_from(ts, window, i + 1)

\* The windows a ButtonPress can name: the launcher windows, which select
\* ButtonPressMask, and for a sent event the panel and the swallowed icons.
PressWindows(ts) ==
    {dock_window} \cup {ts[i].window : i \in {j \in 1..Len(ts) : ts[j].window # 0}}

\* main, 848-850: XNextEvent takes a ButtonPress, handle_button_press_event
\* runs.  fork() may fail; its result is looked at only in the child, and
\* the panel keeps no record of it.  forks: the fork() calls of this handler.
HandleButtonPressEvent ==
    /\ pc = "loop"
    /\ \E window \in PressWindows(tiles) :
           LET i == press_from(tiles, window, 0) IN
           \E forked \in (IF i = -1 THEN {FALSE} ELSE BOOLEAN) :
               last' = [forks |-> IF i = -1 THEN <<>>
                                  ELSE <<Fork("press", i,
                                              IF forked THEN ClickPid ELSE -1)>>] @@
                       [NoEvent EXCEPT !.kind = "press", !.window = window, !.index = i]
    /\ reqs' = <<>>
    /\ UNCHANGED <<tiles, horizontal, tile_size, daemon_mode, dock_window, pc, rootMask,
                   queue, created, xwin, attempts, parent, sigusr1, sigCount,
                   childVars>>

\* ------------------------------------------------- the panel, step by step
\* The panel without -d.
PanelInit ==
    /\ tiles \in TileLists
    /\ horizontal \in BOOLEAN
    /\ tile_size \in TileSizes
    /\ daemon_mode = FALSE
    /\ dock_window = None
    /\ pc = "parsed"
    /\ rootMask = 0
    /\ queue = <<>>
    /\ created = 0
    /\ xwin = <<>>
    /\ reqs = <<>>
    /\ last = NoEvent
    /\ attempts = [i \in 1..Len(tiles) |-> 0]
    /\ parent = "none"
    /\ sigusr1 = FALSE
    /\ sigCount = 0
    /\ argv = <<>>
    /\ starting = NotStarting
    /\ procs = <<>>
    /\ kills = <<>>

\* start_dockapps taken one fork() at a time, with the termination signal and
\* the connection loss that can reach the panel.
SignalNext ==
    \/ MainDaemonize
    \/ MainInstallSigterm
    \/ SetupDisplay
    \/ CreateDockWindow
    \/ CreateLaunchers
    \/ StartDockappsFork
    \/ StartDockappsStore
    \/ StartDockappsDone
    \/ HandleIOErrorEvent
    \/ Sigterm

SignalSpec == PanelInit /\ [][SignalNext]_vars

\* The panel with the windows clients create, the clicks on its windows and
\* the protocol errors its requests draw.
EventNext ==
    \/ MainDaemonize
    \/ MainInstallSigterm
    \/ SetupDisplay
    \/ CreateDockWindow
    \/ CreateLaunchers
    \/ StartDockapps
    \/ ClientCreateWindow
    \/ HandleCreateEvent
    \/ HandleButtonPressEvent
    \/ HandleErrorEvent

EventSpec == PanelInit /\ [][EventNext]_vars

\* ----------------------------------------------------------- parse_opts
MaxArgs == 4

\* What getopt hands to the second pass, one record an option.
Opt(opt, arg) == [opt |-> opt, arg |-> arg]

Options ==
    {Opt("c", 1), Opt("i", 1), Opt("r", <<1>>),
     Opt("t", "dockapp"), Opt("t", "launcher"), Opt("t", "other"),
     Opt("s", 0), Opt("s", 32), Opt("H", 0), Opt("d", 0), Opt("h", 0)}

ArgLists == UNION {[1..n -> Options] : n \in 0..MaxArgs}

\* The first pass, 557-562: the -t options counted.
tile_count(args) == Cardinality({k \in 1..Len(args) : args[k].opt = "t"})

\* The locals and the fields of app the second pass works on; status is the
\* argument of exit(), or -1 while the process runs.  A command or an icon
\* path is a number above 0, and 0 is the null pointer.
ParseStart ==
    [pending_command |-> 0, pending_icon |-> 0, pending_resname |-> NULL,
     tiles |-> <<>>, horizontal |-> FALSE, tile_size |-> 64, daemon_mode |-> FALSE,
     status |-> -1]

Exit(st, status) == [st EXCEPT !.status = status]

\* Mutant of AddTile: the pending values are not cleared at 638-640.
AddTileKeepPending(st, tile) ==
    [st EXCEPT !.tiles = Append(@, tile)]

\* 636-640: the tile is complete; the pending values are cleared.
AddTile(st, tile) ==
    [st EXCEPT !.tiles = Append(@, tile),
               !.pending_command = 0, !.pending_icon = 0,
               !.pending_resname = NULL]

\* The tiles parse_opts fills in, 619-630: a tile of app.tiles with its
\* command and, for a launcher, its icon.
ParsedApp(st) ==
    [command |-> st.pending_command, icon |-> 0] @@ AppTile(st.pending_resname)

ParsedLauncher(st) ==
    [command |-> st.pending_command, icon |-> st.pending_icon] @@ LauncherTile

\* Mutant of parse_option: -t without the test of pending_command.
parse_option_no_command(st, o, icons) ==
    CASE o.opt = "s" -> IF o.arg <= 0 THEN Exit(st, 1) ELSE [st EXCEPT !.tile_size = o.arg]
      [] o.opt = "H" -> [st EXCEPT !.horizontal = TRUE]
      [] o.opt = "r" -> [st EXCEPT !.pending_resname = o.arg]
      [] o.opt = "i" -> [st EXCEPT !.pending_icon = o.arg]
      [] o.opt = "c" -> [st EXCEPT !.pending_command = o.arg]
      [] o.opt = "t" ->
            IF o.arg = "dockapp"
            THEN IF st.pending_resname = NULL THEN Exit(st, 1)
                 ELSE AddTile(st, ParsedApp(st))
            ELSE IF o.arg = "launcher"
            THEN IF st.pending_icon = 0 THEN Exit(st, 1)
                 ELSE IF ~icons THEN Exit(st, 1)
                 ELSE AddTile(st, ParsedLauncher(st))
            ELSE Exit(st, 1)
      [] o.opt = "d" -> [st EXCEPT !.daemon_mode = TRUE]
      [] o.opt = "h" -> Exit(st, 0)
      [] OTHER -> st

\* One turn of the switch at 570-662 for the option o; icons: whether
\* imlib_load_image finds the icon files.
parse_option(st, o, icons) ==
    CASE o.opt = "s" -> IF o.arg <= 0 THEN Exit(st, 1) ELSE [st EXCEPT !.tile_size = o.arg]
      [] o.opt = "H" -> [st EXCEPT !.horizontal = TRUE]
      [] o.opt = "r" -> [st EXCEPT !.pending_resname = o.arg]
      [] o.opt = "i" -> [st EXCEPT !.pending_icon = o.arg]
      [] o.opt = "c" -> [st EXCEPT !.pending_command = o.arg]
      [] o.opt = "t" ->
            IF st.pending_command = 0 THEN Exit(st, 1)
            ELSE IF o.arg = "dockapp"
            THEN IF st.pending_resname = NULL THEN Exit(st, 1)
                 ELSE AddTile(st, ParsedApp(st))
            ELSE IF o.arg = "launcher"
            THEN IF st.pending_icon = 0 THEN Exit(st, 1)
                 ELSE IF ~icons THEN Exit(st, 1)
                 ELSE AddTile(st, ParsedLauncher(st))
            ELSE Exit(st, 1)
      [] o.opt = "d" -> [st EXCEPT !.daemon_mode = TRUE]
      [] o.opt = "h" -> Exit(st, 0)
      [] OTHER -> st

\* The second pass, 569-663, from the k-th option on.
RECURSIVE parse_from(_, _, _, _)
parse_from(args, k, st, icons) ==
    IF k > Len(args) \/ st.status # -1 THEN st
    ELSE parse_from(args, k + 1, parse_option(st, args[k], icons), icons)

\* parse_opts; memory: whether calloc succeeds, background: whether the
\* background image loads.
parse_opts(args, memory, icons, background) ==
    IF tile_count(args) > 0 /\ ~memory THEN Exit(ParseStart, 1)
    ELSE LET st == parse_from(args, 1, ParseStart, icons) IN
         IF st.status # -1 THEN st
         ELSE IF tile_count(args) = 0 THEN Exit(st, 1)
         ELSE IF ~background THEN Exit(st, 1)
         ELSE st

\* The process as exec leaves it: app as initialised at 139-160, nothing
\* opened, nobody forked.
Unstarted ==
    /\ tiles = <<>>
    /\ horizontal = FALSE
    /\ tile_size = 64
    /\ daemon_mode = FALSE
    /\ dock_window = None
    /\ pc = "start"
    /\ rootMask = 0
    /\ queue = <<>>
    /\ created = 0
    /\ xwin = <<>>
    /\ reqs = <<>>
    /\ last = NoEvent
    /\ attempts = <<>>
    /\ parent = "none"
    /\ sigusr1 = FALSE
    /\ sigCount = 0
    /\ starting = NotStarting
    /\ procs = <<>>
    /\ kills = <<>>

OptsInit == argv \in ArgLists /\ Unstarted

\* main, 821: parse_opts(argc, argv).
ParseOpts ==
    /\ pc = "start"
    /\ \E memory \in BOOLEAN, icons \in BOOLEAN, background \in BOOLEAN :
           LET st == parse_opts(argv, memory, icons, background) IN
           /\ tiles' = st.tiles
           /\ horizontal' = st.horizontal
           /\ tile_size' = st.tile_size
           /\ daemon_mode' = st.daemon_mode
           /\ attempts' = [i \in 1..Len(st.tiles) |-> 0]
           /\ pc' = CASE st.status = 0 -> "exit0"
                      [] st.status = 1 -> "exit1"
                      [] OTHER -> "parsed"
    /\ last' = [NoEvent EXCEPT !.kind = "parse_opts"]
    /\ UNCHANGED <<dock_window, rootMask, queue, created, xwin, reqs, parent,
                   sigusr1, sigCount, childVars>>

\* The panel from its command line to the event loop.
OptsNext ==
    \/ ParseOpts
    \/ MainDaemonize
    \/ MainInstallSigterm
    \/ SetupDisplay
    \/ CreateDockWindow
    \/ CreateLaunchers
    \/ StartDockapps

OptsSpec == OptsInit /\ [][OptsNext]_vars

\* The option sequences that specify tiles: -c and -i with an argument of
\* their own each (the position of the option stands for it), -r with a name
\* or with the empty string, -t dockapp and -t launcher.
MaxTileArgs == 6

TileOptionKinds == {"c", "i", "r", "r0", "dockapp", "launcher"}

TileOption(kind, k) ==
    CASE kind = "c" -> Opt("c", k)
      [] kind = "i" -> Opt("i", k)
      [] kind = "r" -> Opt("r", <<1>>)
      [] kind = "r0" -> Opt("r", <<>>)
      [] OTHER -> Opt("t", kind)

TileArgs(kinds) == [k \in 1..Len(kinds) |-> TileOption(kinds[k], k)]

\* parse_opts over the tile specifications.
TilesInit ==
    /\ \E n \in 0..MaxTileArgs :
       \E kinds \in [1..n -> TileOptionKinds] : argv = TileArgs(kinds)
    /\ Unstarted

TilesSpec == TilesInit /\ [][ParseOpts]_vars

\* ------------------------------------------------- the dockapp children
\* The children start_dockapps has forked so far.
Children == {k \in 1..Len(procs) : procs[k].by = "start" /\ procs[k].pid > 0}

\* A child forked at 792 has run its command (796) and the dockapp creates a
\* top-level window; the panel is sent a CreateNotify when it has selected
\* SubstructureNotifyMask on the root window.  The child lives on when the
\* panel is gone.
DockappCreateWindow ==
    /\ Children # {}
    /\ created < MaxWindows
    /\ Len(queue) < MaxQueue
    /\ created' = created + 1
    /\ queue' = IF rootMask # 0 /\ Running
                THEN Append(queue, [type |-> "CreateNotify",
                                    window |-> MainWindowId(created + 1)])
                ELSE queue
    /\ UNCHANGED <<tiles, horizontal, tile_size, daemon_mode, dock_window, pc, rootMask,
                   xwin, reqs, last, attempts, parent, sigusr1, sigCount,
                   childVars>>

\* The panel from main to its event loop, start_dockapps taken one fork() at
\* a time, with the windows of the dockapps it has started.
StartNext ==
    \/ MainDaemonize
    \/ MainInstallSigterm
    \/ SetupDisplay
    \/ CreateDockWindow
    \/ CreateLaunchers
    \/ StartDockappsFork
    \/ StartDockappsStore
    \/ StartDockappsDone
    \/ DockappCreateWindow
    \/ HandleCreateEvent

StartSpec == PanelInit /\ [][StartNext]_vars

\* The panel with every event its loop dispatches: creation, expose and
\* button press.
DispatchNext ==
    \/ MainDaemonize
    \/ MainInstallSigterm
    \/ SetupDisplay
    \/ CreateDockWindow
    \/ CreateLaunchers
    \/ StartDockapps
    \/ ClientCreateWindow
    \/ HandleCreateEvent
    \/ HandleExposeEvent
    \/ HandleButtonPressEvent

DispatchSpec == PanelInit /\ [][DispatchNext]_vars

\* ================================================================ claims
\* Vocabulary of the claims, stated on the state and not through the
\* operators that model the code.
IsDockapp(t) == t.type = TILE_TYPE_APP
Filled(t) == t.window # 0
AllDockappsFilled == \A i \in 1..Len(tiles) : IsDockapp(tiles[i]) => Filled(tiles[i])
SomeDockapp == \E i \in 1..Len(tiles) : IsDockapp(tiles[i])

\* This step is one pass of the event loop over a CreateNotify.
CreateEventHandled == Len(queue') < Len(queue)

ReqsOf(op) == {k \in 1..Len(reqs) : reqs[k].op = op}
ReqsOn(op, w) == {k \in 1..Len(reqs) : reqs[k].op = op /\ reqs[k].win = w}
WindowRequests == ReqsOf("XSetWindowBorderWidth") \cup ReqsOf("XUnmapWindow")
                  \cup ReqsOf("XReparentWindow") \cup ReqsOf("XMapRaised")

\* The unfilled tiles whose resourceName is the string r, as 0-based indices.
UnfilledNamed(r) ==
    {i \in 0..(Len(tiles) - 1) :
        /\ ~Filled(tiles[i + 1])
        /\ tiles[i + 1].res_name # NULL
        /\ tiles[i + 1].res_name = r}

\* C1: a Dockapp tile's window field changes at most once: from 0 to a
\* non-zero icon window, only in a step of the swallowing protocol for that
\* tile (which reparents that icon window), and once non-zero it is never
\* cleared or overwritten.
C1_WindowSetOnce ==
    [][\A i \in 1..Len(tiles) :
          IsDockapp(tiles[i]) =>
            /\ Filled(tiles[i]) => tiles'[i].window = tiles[i].window
            /\ (~Filled(tiles[i]) /\ Filled(tiles'[i])) =>
                  /\ CreateEventHandled
                  /\ last'.index = i - 1
                  /\ tiles'[i].window = last'.icon
                  /\ \E k \in 1..Len(reqs') :
                        reqs'[k].op = "XReparentWindow" /\ reqs'[k].win = tiles'[i].window]_vars

\* A creation event named after an already filled Dockapp tile has been
\* handled and matched no tile.
C1_Witness ==
    /\ last.kind = "create"
    /\ last.ch.ok
    /\ last.index = -1
    /\ \E i \in 1..Len(tiles) :
          /\ IsDockapp(tiles[i]) /\ Filled(tiles[i])
          /\ tiles[i].res_name = last.ch.res_name

\* C2: a window-creation event whose window has no class hints, or whose
\* resource name is the resourceName of no unfilled Dockapp tile, leaves
\* every tile unchanged and issues no request (no unmap, reparent or map)
\* and no handshake signal.
C2_NoMatchNoEffect ==
    [][(CreateEventHandled /\ (~last'.ch.ok \/ UnfilledNamed(last'.ch.res_name) = {})) =>
          /\ tiles' = tiles
          /\ reqs' = <<>>
          /\ xwin' = xwin
          /\ rootMask' = rootMask
          /\ sigCount' = sigCount
          /\ sigusr1' = sigusr1]_vars

\* A named window was handled while a Dockapp tile was still unfilled, and
\* matched none.
C2_Witness ==
    /\ last.kind = "create"
    /\ last.ch.ok
    /\ last.index = -1
    /\ reqs = <<>>
    /\ \E i \in 1..Len(tiles) : IsDockapp(tiles[i]) /\ ~Filled(tiles[i])
\* C3: once every Dockapp tile is filled, no later window-creation event
\* (queued ones included) causes a reparent, and in daemon mode the handshake
\* signal is sent to the parent exactly once over the whole run, never before
\* every Dockapp tile is filled.  Stated on the panel in its event loop: the
\* signal has been sent at most once, only with every Dockapp tile filled, and
\* in daemon mode it has been sent once every Dockapp tile is filled.
C3_HandshakeOnceFilled ==
    /\ sigCount <= 1
    /\ sigCount >= 1 => (daemon_mode /\ AllDockappsFilled)
    /\ (daemon_mode /\ pc = "loop" /\ AllDockappsFilled) => sigCount = 1

\* The part of C3 that the code keeps: with every Dockapp tile filled, a
\* creation event changes no tile and issues no request.
C3_NoReparentOnceFilled ==
    [][(AllDockappsFilled /\ CreateEventHandled) =>
          (tiles' = tiles /\ reqs' = <<>> /\ sigCount' = sigCount)]_vars

\* The handshake part of C3 where the configuration has a Dockapp tile.
C3_HandshakeWithDockapp ==
    /\ sigCount <= 1
    /\ sigCount >= 1 => (daemon_mode /\ AllDockappsFilled)
    /\ (daemon_mode /\ SomeDockapp /\ pc = "loop" /\ AllDockappsFilled) => sigCount = 1

\* C4: the panel listens for creation events on the root window from display
\* setup until the swallow that fills the last unfilled Dockapp tile; at that
\* point the root event selection is cleared, and it is never cleared while
\* some Dockapp tile is unfilled; for every configuration with a tile.
C4_ListenUntilLastSwallow ==
    [][/\ (pc = "handlers" /\ pc' = "display") => rootMask' = SubstructureNotifyMask
       /\ (rootMask # 0 /\ rootMask' = 0) =>
             /\ CreateEventHandled
             /\ last'.index # -1 /\ last'.icon # None
             /\ ~AllDockappsFilled /\ AllDockappsFilled'
       /\ (~AllDockappsFilled /\ AllDockappsFilled') => rootMask' = 0
       /\ (rootMask = 0 /\ rootMask' # 0) => (pc = "handlers" /\ pc' = "display")
       /\ ((pc' \in {"display", "dock", "launchers", "loop"} /\ ~AllDockappsFilled')
              => rootMask' = SubstructureNotifyMask)]_vars

\* The swallow that filled the last Dockapp tile has cleared the selection.
C4_Witness ==
    /\ pc = "loop"
    /\ rootMask = 0
    /\ last.kind = "create" /\ last.index # -1 /\ last.icon # None
    /\ SomeDockapp /\ AllDockappsFilled
    /\ ReqsOf("XSelectInput") # {}

\* C5: in daemon mode the invoking process blocks until the panel child
\* signals it and then exits with status 0: it never ends otherwise or before
\* every Dockapp tile is filled, and once the panel is in its event loop with
\* every Dockapp tile filled the parent eventually exits 0.
C5_ParentExitsZero ==
    /\ [](parent \in {"exit0", "killed"} => (parent = "exit0" /\ AllDockappsFilled))
    /\ ((daemon_mode /\ pc = "loop" /\ AllDockappsFilled) ~> (parent = "exit0"))

\* The part of C5 that the code keeps: the parent does not end before every
\* Dockapp tile is filled.
C5_ParentNotEarly ==
    parent \in {"exit0", "killed"} => (daemon_mode /\ AllDockappsFilled /\ sigCount = 1)

\* C6: for a creation event with resource name r the swallow target is the
\* lowest-index unfilled tile whose resourceName is exactly r; no other tile
\* is attempted for that event, also when the attempt aborts; filled tiles
\* are skipped, so tiles of one name are filled in increasing index order.
C6_FirstUnfilledMatch ==
    [][/\ CreateEventHandled =>
            LET cand == IF last'.ch.ok THEN UnfilledNamed(last'.ch.res_name) ELSE {}
                target == IF cand = {} THEN -1
                          ELSE CHOOSE i \in cand : \A j \in cand : i <= j
            IN  /\ last'.index = target
                /\ \A i \in 1..Len(tiles) :
                      /\ i # target + 1 => tiles'[i] = tiles[i]
                      /\ attempts'[i] = attempts[i] + (IF i = target + 1 THEN 1 ELSE 0)
       /\ \A i, j \in 1..Len(tiles) :
            (i < j /\ IsDockapp(tiles'[i]) /\ tiles'[i].res_name = tiles'[j].res_name
                   /\ Filled(tiles'[j])) => Filled(tiles'[i])]_vars

\* Two tiles of one name: the second was filled by the event handled last,
\* after the first.
C6_Witness ==
    /\ Len(tiles) >= 2
    /\ tiles[1].res_name = tiles[2].res_name
    /\ Filled(tiles[1]) /\ Filled(tiles[2])
    /\ IsDockapp(tiles[1])
    /\ last.kind = "create" /\ last.index = 1
\* C7: icon discovery is bounded: one swallow attempt queries the icon-window
\* hint at most 2 times, stops at the first query that returns an icon
\* window, and ends with none when both queries find nothing; an icon window
\* that appears after the first poll is found by the second.
C7_IconDiscoveryBounded ==
    last.kind = "create" =>
        /\ last.polls <= 2
        /\ last.index = -1 => (last.polls = 0 /\ last.icon = None)
        /\ last.index # -1 =>
              /\ last.seen[1] # None => (last.polls = 1 /\ last.icon = last.seen[1])
              /\ (last.seen[1] = None /\ last.seen[2] # None) =>
                    (last.polls = 2 /\ last.icon = last.seen[2])
              /\ (last.seen[1] = None /\ last.seen[2] = None) =>
                    (last.polls = 2 /\ last.icon = None)

\* The icon window was missing at the first poll and found by the second.
C7_Witness ==
    /\ last.kind = "create" /\ last.index # -1
    /\ last.seen[1] = None /\ last.seen[2] # None
    /\ last.polls = 2 /\ last.icon = last.seen[2]

\* C8: when icon discovery finds no icon window the swallow aborts with no
\* state change: the matched tile stays unfilled, no border-width, unmap,
\* reparent or map request is issued, listening is not stopped and no signal
\* is sent; the dispatcher keeps running, and a later creation event of that
\* name starts a new attempt, which fills the tile when its icon is found.
C8_AbortLeavesNoTrace ==
    [][/\ (CreateEventHandled /\ last'.index # -1 /\ last'.icon = None) =>
             /\ tiles' = tiles
             /\ ~Filled(tiles'[last'.index + 1])
             /\ reqs' = <<>>
             /\ xwin' = xwin
             /\ rootMask' = rootMask /\ rootMask' # 0
             /\ sigCount' = sigCount /\ sigusr1' = sigusr1
             /\ pc' = "loop"
       /\ (CreateEventHandled /\ last'.index # -1 /\ last'.icon # None) =>
             tiles'[last'.index + 1].window = last'.icon
       /\ \A i \in 1..Len(tiles) :
             attempts'[i] # attempts[i] =>
                (CreateEventHandled /\ last'.ch.ok /\ last'.ch.res_name = tiles[i].res_name)]_vars

\* A tile whose first attempt aborted was filled by a later creation event.
C8_Witness ==
    \E i \in 1..Len(tiles) :
        /\ IsDockapp(tiles[i]) /\ Filled(tiles[i])
        /\ attempts[i] >= 2
        /\ last.kind = "create" /\ last.index = i - 1 /\ last.icon = tiles[i].window

\* The requests of the last swallow, by kind and window.
LastMain == last.window
LastIcon == last.icon
Swallowed == last.kind = "create" /\ last.index # -1 /\ last.icon # None
Count(op, w) == Cardinality(ReqsOn(op, w))
UnmapsBeforeReparents ==
    \A u \in ReqsOf("XUnmapWindow") : \A r \in ReqsOf("XReparentWindow") : u < r

\* C9 as stated: with a window manager present the swallow unmaps both
\* windows before any reparent and performs the reparent/map sequence twice;
\* without one, no unmap is issued and the sequence is performed once.
C9_ReparentMapTwice ==
    Swallowed =>
        /\ last.wm =>
              /\ Count("XUnmapWindow", LastMain) = 1 /\ Count("XUnmapWindow", LastIcon) = 1
              /\ UnmapsBeforeReparents
              /\ Count("XReparentWindow", LastMain) = 2
              /\ Count("XReparentWindow", LastIcon) = 2
              /\ Count("XMapRaised", LastMain) = 2
              /\ Count("XMapRaised", LastIcon) = 2
        /\ ~last.wm =>
              /\ ReqsOf("XUnmapWindow") = {}
              /\ Count("XReparentWindow", LastMain) = 1
              /\ Count("XReparentWindow", LastIcon) = 1
              /\ Count("XMapRaised", LastMain) = 1
              /\ Count("XMapRaised", LastIcon) = 1

\* C9 amended: with a window manager present the swallow unmaps both windows
\* before any reparent and reparents both windows twice, but maps each only
\* once, raised, after the last reparent; without one, no unmap is issued and
\* each window is reparented once and mapped once.
C9_ReparentTwiceMapOnce ==
    Swallowed =>
        /\ Count("XMapRaised", LastMain) = 1
        /\ Count("XMapRaised", LastIcon) = 1
        /\ \A r \in ReqsOf("XReparentWindow") : \A m \in ReqsOf("XMapRaised") : r < m
        /\ last.wm =>
              /\ Count("XUnmapWindow", LastMain) = 1 /\ Count("XUnmapWindow", LastIcon) = 1
              /\ UnmapsBeforeReparents
              /\ Count("XReparentWindow", LastMain) = 2
              /\ Count("XReparentWindow", LastIcon) = 2
        /\ ~last.wm =>
              /\ ReqsOf("XUnmapWindow") = {}
              /\ Count("XReparentWindow", LastMain) = 1
              /\ Count("XReparentWindow", LastIcon) = 1

\* A swallow has run with a window manager present.
C9_Witness ==
    /\ Swallowed /\ last.wm
    /\ ReqsOf("XUnmapWindow") # {}

\* The state a successful swallow of window w into tile i ends in, from the
\* window, the tile, the icon size and the layout alone.
SwallowedWindow(x, y, border) ==
    [parent |-> dock_window, x |-> x, y |-> y, mapped |-> TRUE, raised |-> TRUE,
     border |-> border]

\* C10: for the same matched window, tile, icon size and layout the state at
\* the end of a successful swallow is the same whether or not a window
\* manager was detected: both windows are children of the panel window at
\* the resolved offsets, mapped and raised, the tile's window is the icon
\* window, and listening and handshake depend on the tiles alone.
C10_SameFinalState ==
    [][(CreateEventHandled /\ last'.index # -1 /\ last'.icon # None) =>
          LET at == resolve_geometry(last'.index, last'.g)
              main == last'.window
              icon == last'.icon
          IN  /\ dock_window' = DockWindowId
              /\ xwin'[main] = SwallowedWindow(at.main_x, at.main_y, GetWin(xwin, main).border)
              /\ xwin'[icon] = SwallowedWindow(at.icon_x, at.icon_y, 0)
              /\ \A w \in DOMAIN xwin' \ {main, icon} : w \in DOMAIN xwin /\ xwin'[w] = xwin[w]
              /\ tiles' = [tiles EXCEPT ![last'.index + 1].window = icon]
              /\ rootMask' = IF AllDockappsFilled' THEN 0 ELSE rootMask
              /\ sigCount' = sigCount + (IF AllDockappsFilled' /\ daemon_mode THEN 1 ELSE 0)]_vars

\* A swallow that saw a window manager has ended, filling the last Dockapp
\* tile: both its windows sit in the panel, mapped.
C10_Witness ==
    /\ Swallowed /\ last.wm
    /\ xwin[last.window].parent = dock_window /\ xwin[last.window].mapped
    /\ xwin[last.icon].parent = dock_window /\ xwin[last.icon].mapped
    /\ AllDockappsFilled /\ rootMask = 0

\* ------------------------------------------------------------ geometry
\* Exact arithmetic for the claims: what a coordinate has to be, said without
\* forming a number beyond INT_MAX.
layoutAxis(x, y) == IF horizontal THEN x ELSE y
crossAxis(x, y) == IF horizontal THEN y ELSE x

\* p = n * S, for S > 0.
IsProduct(p, n, S) == p >= 0 /\ p \div S = n /\ p % S = 0

\* The unsigned value u is n * S: the product computed half by half, with
\* nothing cut off at 32 bits.
IsUnsignedProduct(u, n, S) ==
    LET low == n * (S % Half)
    IN  u.lo = low % Half /\ u.hi = n * (S \div Half) + (low \div Half)

\* The point (x, y) is the origin of the cell of tile index i.
IsCellOrigin(x, y, i) ==
    IsProduct(layoutAxis(x, y), i, tile_size) /\ crossAxis(x, y) = 0

\* The 0-based indices of the tiles that are not launchers, ascending.
NonLauncherIndices ==
    SelectSeq([k \in 1..Len(tiles) |-> k - 1],
              LAMBDA i : tiles[i + 1].type # TILE_TYPE_LAUNCHER)

\* C11: the tile position function returns (index*S, 0) in horizontal layout
\* and (0, index*S) otherwise, for every tile index and tile size S > 0, so
\* consecutive tiles are S apart on the layout axis, their cells do not
\* overlap, and every cell lies inside the panel rectangle of tileCount*S by
\* S.  On the state: the panel window has that size, every launcher window
\* sits at its cell's origin, and an expose of the panel draws the background
\* of every other tile at its cell's origin.
C11_TilesOnGrid ==
    /\ DockWindowId \in DOMAIN xwin =>
          /\ IsUnsignedProduct(layoutAxis(xwin[DockWindowId].width,
                                          xwin[DockWindowId].height),
                               Len(tiles), tile_size)
          /\ IsUnsignedProduct(crossAxis(xwin[DockWindowId].width,
                                         xwin[DockWindowId].height),
                               1, tile_size)
    /\ \A i \in 1..Len(tiles) :
          (tiles[i].type = TILE_TYPE_LAUNCHER /\ tiles[i].window \in DOMAIN xwin) =>
              IsCellOrigin(xwin[tiles[i].window].x, xwin[tiles[i].window].y, i - 1)
    /\ (last.kind = "expose" /\ last.window = dock_window) =>
          /\ Len(reqs) = Len(NonLauncherIndices)
          /\ \A k \in 1..Len(reqs) :
                IsCellOrigin(reqs[k].x, reqs[k].y, NonLauncherIndices[k])

\* The part of C11 that the code keeps: the same, for panels whose extent
\* tileCount*S fits an int.
C11_TilesOnGridInRange ==
    Len(tiles) <= INT_MAX \div tile_size => C11_TilesOnGrid

\* The offset that centres an extent w in a tile of size S: half of S - w,
\* the half of an odd negative difference rounded either way.
IsCentredAt(v, origin, S, w) ==
    IF w <= S
    THEN origin <= INT_MAX - ((S - w) \div 2) /\ v = origin + ((S - w) \div 2)
    ELSE \/ v = origin - ((w - S) \div 2)
         \/ v = origin - ((w - S + 1) \div 2)

\* The geometry resolved last: for which tile, from which queried size.
Resolved == last.kind = "resolve"
ResolvedSize == get_window_size(last.g)

\* C12: in a successful swallow the icon window is reparented at the tile's
\* position plus ((S-w)/2, (S-h)/2), w x h the icon window's queried size,
\* for every icon size and tile index, also when w > S or h > S.
C12_IconCentred ==
    Resolved =>
        LET S == tile_size
            i == last.index
        IN  /\ i <= INT_MAX \div S
            /\ IsCentredAt(last.at.icon_x, IF horizontal THEN i * S ELSE 0,
                            S, ResolvedSize.width)
            /\ IsCentredAt(last.at.icon_y, IF horizontal THEN 0 ELSE i * S,
                            S, ResolvedSize.height)

\* The part of C12 that the code keeps: an icon window no larger than the
\* tile, in a panel whose extent fits an int, is centred in its cell.
C12_IconCentredWhenSmaller ==
    (/\ Resolved
     /\ ResolvedSize.width <= tile_size /\ ResolvedSize.height <= tile_size
     /\ Len(tiles) <= INT_MAX \div tile_size) =>
        LET S == tile_size
            i == last.index
        IN  /\ last.at.icon_x = (IF horizontal THEN i * S ELSE 0)
                                  + ((S - ResolvedSize.width) \div 2)
            /\ last.at.icon_y = (IF horizontal THEN 0 ELSE i * S)
                                  + ((S - ResolvedSize.height) \div 2)

\* The icon render of the expose handled last, when it was a launcher's.
LauncherExposed ==
    /\ last.kind = "expose"
    /\ \E i \in 1..Len(tiles) :
          tiles[i].type = TILE_TYPE_LAUNCHER /\ tiles[i].window = last.window

\* The offset of an icon of extent w on one axis of a launcher's window.
IsLauncherOffset(v, S, w) ==
    /\ v >= 0
    /\ w <= S => (v + v = S - w \/ v + v + 1 = S - w)
    /\ w > S => v = 0

\* C13: on an expose of a launcher tile's own window the launcher icon is
\* drawn, after the background, at an offset that on each axis independently
\* is (S-w)/2 (resp. (S-h)/2) when the icon's extent on that axis is at most
\* S and 0 when it exceeds S; the offset is never negative and never wraps.
C13_LauncherIconOffset ==
    LauncherExposed =>
        /\ Len(reqs) = 2
        /\ reqs[1] = Render("bg_image", last.window, 0, 0)
        /\ reqs[2].op = "imlib_render_image_on_drawable"
        /\ reqs[2].image = "icon" /\ reqs[2].win = last.window
        /\ IsLauncherOffset(reqs[2].x, tile_size, last.width)
        /\ IsLauncherOffset(reqs[2].y, tile_size, last.height)

\* A launcher's icon wider than the tile and lower than it has been drawn:
\* clamped on one axis, centred on the other.
C13_Witness ==
    /\ LauncherExposed
    /\ last.width > tile_size /\ last.height < tile_size
    /\ Len(reqs) = 2 /\ reqs[2].x = 0 /\ reqs[2].y > 0

\* ------------------------------------------------- errors and signals
\* C14: the protocol error handler suppresses exactly the errors of the
\* BadWindow class, whatever request caused them, and logs every other
\* error.
C14_SuppressesBadWindowOnly ==
    last.kind = "error" => (last.logged <=> last.error.error_code # BadWindow)

\* The part of C14 that the code keeps: the handler returns to its caller;
\* it ends nothing and changes no tile.
C14_ReturnsToCaller ==
    [][HandleErrorEvent =>
          (tiles' = tiles /\ pc' = pc /\ Running' /\ kills' = kills)]_vars

\* The pids of the tiles that have one recorded.
RecordedPids == {tiles[i].pid : i \in {j \in 1..Len(tiles) : tiles[j].pid > 0}}

\* How often pid occurs in the sequence ks.
Times(ks, pid) == Cardinality({k \in 1..Len(ks) : ks[k] = pid})

\* C15: on connection loss the panel sends a termination signal to every
\* tile with a recorded process id (> 0), exactly once each and to no other
\* process, waiting for no child, and then exits with status 1; no signal
\* is sent after the exit.
C15_IOErrorTerminatesChildren ==
    [][/\ (last'.kind = "io_error" /\ last.kind # "io_error") =>
             /\ pc' = "exit1"
             /\ kills = <<>>
             /\ \A pid \in RecordedPids : Times(kills', pid) = 1
             /\ \A k \in 1..Len(kills') : kills'[k] \in RecordedPids
             /\ tiles' = tiles /\ procs' = procs
       /\ pc = "exit1" => kills' = kills]_vars

\* The connection was lost with a launcher and a started dockapp in the
\* panel: the dockapp has been signalled.
C15_Witness ==
    /\ last.kind = "io_error" /\ pc = "exit1"
    /\ kills # <<>>
    /\ \E i \in 1..Len(tiles) : tiles[i].type = TILE_TYPE_LAUNCHER

\* The dockapp children started so far: the pids fork() has returned in
\* start_dockapps.
StartedChildren == {procs[k].pid : k \in {j \in 1..Len(procs) : procs[j].pid > 0}}

\* C16: a termination signal delivered to the panel at any point after the
\* handler is installed, also in the middle of starting dockapps, results in
\* a termination signal to every dockapp child started so far and then in
\* exit with status 0.
C16_SigtermReachesStartedChildren ==
    (last.kind = "sigterm" /\ pc # "killed") =>
        /\ pc = "exit0"
        /\ \A pid \in StartedChildren : Times(kills, pid) >= 1

\* The part of C16 that the code keeps: every child whose pid has been stored
\* in its tile is signalled, and the panel exits with status 0.
C16_SigtermReachesRecordedChildren ==
    (last.kind = "sigterm" /\ pc # "killed") =>
        /\ pc = "exit0"
        /\ \A pid \in RecordedPids : Times(kills, pid) = 1
        /\ \A k \in 1..Len(kills) : kills[k] \in RecordedPids

\* ----------------------------------------------------------- launchers
\* The launcher tiles whose window is w, as 0-based indices.
LaunchersOf(w) ==
    {i \in 0..(Len(tiles) - 1) :
        tiles[i + 1].type = TILE_TYPE_LAUNCHER /\ tiles[i + 1].window = w}

C19_ForkFailureFatal ==
    /\ (\E k \in 1..Len(procs) : procs[k].pid = -1) => pc = "exit1"
    /\ (last.kind = "press" /\ \E k \in 1..Len(last.forks) : last.forks[k].pid = -1)
          => pc = "exit1"

\* The part of C19 that the code keeps: a fork failure in start_dockapps ends
\* the panel with status 1.
C19_StartForkFailureFatal ==
    (\E k \in 1..Len(procs) : procs[k].pid = -1) => pc = "exit1"


\* --------------------------------------------------------- command line
\* The last -t option before the k-th option, or 0.
PrevTile(args, k) ==
    LET ts == {j \in 1..(k - 1) : args[j].opt = "t"} IN
    IF ts = {} THEN 0 ELSE CHOOSE j \in ts : \A l \in ts : l <= j

\* An option o was given since the previous tile, before the k-th option.
GivenSince(args, k, o) ==
    \E j \in (PrevTile(args, k) + 1)..(k - 1) : args[j].opt = o

\* The k-th option is a type option that specifies no valid tile.
InvalidAt(args, k) ==
    /\ args[k].opt = "t"
    /\ \/ ~GivenSince(args, k, "c")
       \/ args[k].arg = "dockapp" /\ ~GivenSince(args, k, "r")
       \/ args[k].arg = "launcher" /\ ~GivenSince(args, k, "i")
       \/ args[k].arg \notin {"dockapp", "launcher"}

\* Where the option sequence holds an invalid tile specification; no tile at
\* all shows at the end of the sequence.
InvalidPositions(args) ==
    {k \in 1..Len(args) : InvalidAt(args, k)} \cup
    (IF \A k \in 1..Len(args) : args[k].opt # "t" THEN {Len(args) + 1} ELSE {})

FirstInvalid(args) ==
    CHOOSE k \in InvalidPositions(args) : \A l \in InvalidPositions(args) : k <= l

\* An -h option precedes the first invalid tile specification.
HelpBeforeInvalid(args) ==
    \E j \in 1..(FirstInvalid(args) - 1) : args[j].opt = "h"

\* No display connection, no window, no daemon fork, no child.
NothingStarted ==
    /\ rootMask = 0 /\ dock_window = None /\ xwin = <<>>
    /\ parent = "none" /\ procs = <<>> /\ kills = <<>>

\* C18: every invalid tile specification in the option sequence makes the
\* process exit with status 1 before the display connection is opened,
\* before daemonizing and before any child process is started.
C18_InvalidTilesExitOne ==
    (pc # "start" /\ InvalidPositions(argv) # {}) =>
        (pc = "exit1" /\ NothingStarted)

\* C18 as amended: every invalid tile specification makes the process exit
\* before the display connection is opened, before daemonizing and before
\* any child process is started; the exit status is 1, or 0 where an -h
\* option precedes the invalid specification in the option sequence.
C18_InvalidTilesExitEarly ==
    (pc # "start" /\ InvalidPositions(argv) # {}) =>
        /\ NothingStarted
        /\ \/ pc = "exit1"
           \/ pc = "exit0" /\ HelpBeforeInvalid(argv)
        /\ ~HelpBeforeInvalid(argv) => pc = "exit1"

\* A valid tile was taken, and the type option after it has no command of
\* its own: exit with status 1.
C18_Witness ==
    /\ pc = "exit1"
    /\ Len(tiles) >= 1
    /\ Len(argv) >= 1 /\ InvalidAt(argv, Len(argv))
    /\ FirstInvalid(argv) = Len(argv)
    /\ ~HelpBeforeInvalid(argv)


\* ----------------------------------------------------- the main window
\* C20: in a successful swallow the main window is reparented at two
\* tile-lengths (2*S) along the cross-axis and at the icon's coordinate along
\* the layout axis, so for every tile index and S > 0 its origin lies outside
\* the panel's visible rectangle, whose cross-axis extent is S.
C20_MainOffGrid ==
    last.kind \in {"resolve", "overflow"} =>
        /\ last.kind = "resolve"
        /\ tile_size <= INT_MAX \div 2
        /\ crossAxis(last.at.main_x, last.at.main_y) = 2 * tile_size
        /\ layoutAxis(last.at.main_x, last.at.main_y)
              = layoutAxis(last.at.icon_x, last.at.icon_y)
        /\ crossAxis(last.at.main_x, last.at.main_y) >= tile_size

\* The part of C20 that the code keeps: while 2*S is an int, the main window
\* goes to 2*S on the cross-axis, off the panel, and to the icon's coordinate
\* on the layout axis.
C20_MainOffGridInRange ==
    (Resolved /\ tile_size <= INT_MAX \div 2) =>
        /\ crossAxis(last.at.main_x, last.at.main_y) = 2 * tile_size
        /\ layoutAxis(last.at.main_x, last.at.main_y)
              = layoutAxis(last.at.icon_x, last.at.icon_y)
        /\ crossAxis(last.at.main_x, last.at.main_y) >= tile_size


\* --------------------------------------------------------- startup order
\* The panel has subscribed to creation events on the root window, and the
\* panel window and every launcher window exist.
ReadyForDockapps ==
    /\ rootMask = SubstructureNotifyMask
    /\ dock_window # None /\ dock_window \in DOMAIN xwin
    /\ \A i \in 1..Len(tiles) :
          tiles[i].type = TILE_TYPE_LAUNCHER =>
              /\ tiles[i].window # 0
              /\ tiles[i].window \in DOMAIN xwin
              /\ xwin[tiles[i].window].parent = dock_window

\* The windows the requests rs reparent.
Reparented(rs) == {rs[k].win : k \in {j \in 1..Len(rs) : rs[j].op = "XReparentWindow"}}

\* This step is a started dockapp creating a window.
DockappCreates == Children # {} /\ created' = created + 1

\* C21: at startup the panel subscribes to root-window creation events and
\* creates the panel window and every launcher window before it forks the
\* first dockapp child; so no dockapp window is created before the
\* subscription exists, and every swallow finds an existing panel window to
\* reparent into.
C21_ReadyBeforeFirstFork ==
    [][/\ procs' # procs => ReadyForDockapps
       /\ DockappCreates =>
             (rootMask = SubstructureNotifyMask \/ (SomeDockapp /\ AllDockappsFilled))
       /\ (DockappCreates /\ Running /\ ~AllDockappsFilled) =>
             Len(queue') = Len(queue) + 1
       /\ (CreateEventHandled /\ Reparented(reqs') # {}) =>
             /\ dock_window # None /\ dock_window \in DOMAIN xwin
             /\ \A w \in Reparented(reqs') : xwin'[w].parent = dock_window]_vars

\* A dockapp started after a launcher window was created has been swallowed
\* into the panel window.
C21_Witness ==
    /\ Children # {}
    /\ \E i \in 1..Len(tiles) : tiles[i].type = TILE_TYPE_LAUNCHER /\ tiles[i].window # 0
    /\ \E i \in 1..Len(tiles) :
          /\ IsDockapp(tiles[i]) /\ Filled(tiles[i])
          /\ tiles[i].window \in DOMAIN xwin
          /\ xwin[tiles[i].window].parent = dock_window


\* ------------------------------------------------------- what tiles keep
\* The positions of the tiles this step changes.
ChangedTiles == {i \in 1..Len(tiles) : tiles'[i] # tiles[i]}

\* C22: processing one window-creation event changes the window field of at
\* most one tile and no other tile field; a Launcher tile is never the
\* swallow target, whatever the created window's resource name, so its
\* window, set at startup, stays the same in every later state; expose and
\* button-press events change no tile at all.
C22_TileFrame ==
    [][/\ Len(tiles') = Len(tiles)
       /\ CreateEventHandled =>
             /\ Cardinality(ChangedTiles) <= 1
             /\ \A i \in ChangedTiles :
                   /\ tiles'[i] = [tiles[i] EXCEPT !.window = tiles'[i].window]
                   /\ tiles[i].type # TILE_TYPE_LAUNCHER
             /\ last'.index # -1 => tiles[last'.index + 1].type # TILE_TYPE_LAUNCHER
       /\ \A i \in 1..Len(tiles) :
             (tiles[i].type = TILE_TYPE_LAUNCHER /\ tiles[i].window # 0) =>
                 tiles'[i].window = tiles[i].window
       /\ last'.kind \in {"expose", "press"} => tiles' = tiles]_vars

\* A window was swallowed into a Dockapp tile of a panel that has a launcher
\* with its window.
C22_Witness ==
    /\ last.kind = "create" /\ last.index # -1 /\ last.icon # None
    /\ tiles[last.index + 1].window = last.icon
    /\ \E i \in 1..Len(tiles) :
          tiles[i].type = TILE_TYPE_LAUNCHER /\ tiles[i].window # 0


\* ------------------------------------------------------ the parsed tiles
\* The positions of the type options of args, ascending.
TypeOptions(args) ==
    SelectSeq([k \in 1..Len(args) |-> k], LAMBDA k : args[k].opt = "t")

\* The argument of the last option o given since the previous tile, before
\* the k-th option.
LastGiven(args, k, o) ==
    LET given == {j \in (PrevTile(args, k) + 1)..(k - 1) : args[j].opt = o}
    IN  args[CHOOSE j \in given : \A l \in given : l <= j].arg

\* The tile t is what the type option at position k of args asks for.
IsTileOf(t, args, k) ==
    /\ GivenSince(args, k, "c") /\ t.command = LastGiven(args, k, "c")
    /\ args[k].arg = "dockapp" =>
          /\ t.type = TILE_TYPE_APP
          /\ GivenSince(args, k, "r") /\ t.res_name = LastGiven(args, k, "r")
          /\ t.res_name # NULL
          /\ t.window = 0
    /\ args[k].arg = "launcher" =>
          /\ t.type = TILE_TYPE_LAUNCHER
          /\ GivenSince(args, k, "i") /\ t.icon = LastGiven(args, k, "i")
          /\ t.res_name = NULL
    /\ args[k].arg \in {"dockapp", "launcher"}

\* The tile list has one tile per type option of argv, in their order.
TilesAsSpecified ==
    /\ Len(tiles) = Len(TypeOptions(argv))
    /\ \A n \in 1..Len(tiles) : IsTileOf(tiles[n], argv, TypeOptions(argv)[n])

\* C23: when option parsing succeeds, the tile list has exactly one tile per
\* type option, in the order of the type options; each tile's command (a
\* Dockapp tile's resource name, a Launcher tile's icon) is the last value
\* given after the previous type option and before its own; every Dockapp
\* tile has a non-empty resourceName and window 0, and no Launcher tile has a
\* resourceName.
C23_TilesAsSpecified ==
    pc = "parsed" =>
        /\ TilesAsSpecified
        /\ \A n \in 1..Len(tiles) : IsDockapp(tiles[n]) => tiles[n].res_name # <<>>

\* C23 as amended: the same, with every Dockapp tile having a resourceName,
\* which is the empty string where -r was given the empty string.
C23_TilesAsGiven ==
    pc = "parsed" => TilesAsSpecified

\* Two tiles were parsed, a dockapp and a launcher after it, each from the
\* command given for it.
C23_Witness ==
    /\ pc = "parsed"
    /\ Len(tiles) = 2
    /\ IsDockapp(tiles[1]) /\ tiles[2].type = TILE_TYPE_LAUNCHER
    /\ tiles[2].command # tiles[1].command
    /\ tiles[2].res_name = NULL

====
